---- MODULE Spec2Model ----
(***************************************************************************)
(* Model of the host process of tex-workspace (electron/src/preload.js):   *)
(* the terminal session registry (`terminals`), the PTY processes it       *)
(* spawns with their data/exit callbacks, the surface window, and the      *)
(* sandboxed file gateway rooted at `currentDirectory`.                    *)
(*                                                                         *)
(* All handlers run on one event loop, so every handler and every callback *)
(* is one atomic action.  A PTY process lives outside the event loop: it   *)
(* produces output and exits on its own (ProcOutput, ProcExit), and the    *)
(* callbacks (OnData, OnExit) are delivered later, in order.               *)
(***************************************************************************)
EXTENDS Integers, Sequences, FiniteSets, TLC

\* ---- bounds ----
MaxProcs == 2        \* processes spawned over a run of Spec
MaxStreams == 1      \* processes spawned over a run of SpecStream
MaxOut == 2          \* output chunks produced over a run of SpecStream
MaxWrites == 1       \* files of the storage changed over a run of SpecFiles

\* ---- inputs ----
TermIds == {"t1", "t2"}
NoProc == 0

VARIABLES
    pty,               \* TRUE iff require('node-pty') succeeded
    mainWindow,        \* "window" | "null"
    currentDirectory,  \* a path (sequence of characters) | <<>> for null
    terminals,         \* the Map termId -> handle (index into procs)
    procs,             \* every process spawned so far, in spawn order
    files,             \* the storage: full path of each regular file -> content
    lastOp             \* the last handler or callback run, and its result

vars == <<pty, mainWindow, currentDirectory, terminals, procs, files, lastOp>>

\* ---- the Map `terminals` ----
MapHas(m, id) == id \in DOMAIN m

MapSet(m, id, h) == [i \in (DOMAIN m) \cup {id} |-> IF i = id THEN h ELSE m[i]]

MapDelete(m, id) == [i \in (DOMAIN m) \ {id} |-> m[i]]

EmptyMap == [i \in {} |-> NoProc]

\* terminals.get(termId): the handle, or NoProc for undefined
MapGet(m, id) == IF MapHas(m, id) THEN m[id] ELSE NoProc

\* ---- the surface ----
\* mainWindow && !mainWindow.isDestroyed() && webContents && !isDestroyed()
\* The IPC handlers are called by the renderer of the window, so a handler
\* runs only while the window is alive; callbacks of processes run anyway.
WindowAlive == mainWindow = "window"

\* What the last step did: the handler or callback (op), the termId it was
\* given, what it returned or pushed (result), the handle it called
\* write/resize/kill on or spawned (target), and for create-terminal the
\* arguments of pty.spawn (detail); for a file handler, detail is the full
\* path it handed to fs, <<>> when it returned before touching storage.
\* content is the payload of a successful reply: the text read-file returns,
\* the entries list-files returns, the records list-tmux-sessions returns.
Op(op, id, result, target) ==
    [op |-> op, id |-> id, result |-> result, target |-> target, detail |-> <<>>,
     content |-> <<>>]

\* a step of a process itself, outside the event loop
EnvOp == Op("env", "", "none", NoProc)

\* ---- paths: strings as sequences of characters ----
Str1(c) == <<c>>
Slash == Str1("/")
Up == <<".", ".">>
Dot == Str1(".")

StartsWith(s, prefix) ==
    Len(prefix) <= Len(s) /\ SubSeq(s, 1, Len(prefix)) = prefix

EndsWithSlash(s) == s # <<>> /\ s[Len(s)] = "/"

\* s.split('/')
RECURSIVE SplitFrom(_, _, _, _)
SplitFrom(s, i, cur, acc) ==
    IF i > Len(s) THEN Append(acc, cur)
    ELSE IF s[i] = "/" THEN SplitFrom(s, i + 1, <<>>, Append(acc, cur))
    ELSE SplitFrom(s, i + 1, Append(cur, s[i]), acc)

SplitPath(s) == SplitFrom(s, 1, <<>>, <<>>)

\* segs.join('/')
RECURSIVE JoinSegs(_)
JoinSegs(segs) ==
    IF segs = <<>> THEN <<>>
    ELSE IF Len(segs) = 1 THEN segs[1]
    ELSE segs[1] \o Slash \o JoinSegs(Tail(segs))

\* path.posix normalizeString: drops empty and '.' segments, lets '..' take
\* back the segment before it, and keeps a leading '..' only when allowed
RECURSIVE NormalizeString(_, _, _)
NormalizeString(segs, res, allowAboveRoot) ==
    IF segs = <<>> THEN res
    ELSE LET seg == Head(segs)
             rest == Tail(segs)
         IN IF seg = <<>> \/ seg = Dot THEN NormalizeString(rest, res, allowAboveRoot)
            ELSE IF seg = Up
            THEN IF res # <<>> /\ res[Len(res)] # Up
                 THEN NormalizeString(rest, SubSeq(res, 1, Len(res) - 1), allowAboveRoot)
                 ELSE IF allowAboveRoot
                 THEN NormalizeString(rest, Append(res, Up), allowAboveRoot)
                 ELSE NormalizeString(rest, res, allowAboveRoot)
            ELSE NormalizeString(rest, Append(res, seg), allowAboveRoot)

\* path.normalize
Normalize(path) ==
    IF path = <<>> THEN Dot
    ELSE LET isAbsolute == path[1] = "/"
             body == JoinSegs(NormalizeString(SplitPath(path), <<>>, ~isAbsolute))
             dotted == IF body = <<>> /\ ~isAbsolute THEN Dot ELSE body
             slashed == IF dotted # <<>> /\ EndsWithSlash(path)
                        THEN dotted \o Slash ELSE dotted
         IN IF isAbsolute THEN Slash \o slashed ELSE slashed

\* path.join(a, b)
PathJoin(a, b) ==
    IF b = <<>> THEN Normalize(a)
    ELSE IF a = <<>> THEN Normalize(b)
    ELSE Normalize(a \o Slash \o b)

StripSlash(path) ==
    IF Len(path) > 1 /\ EndsWithSlash(path) THEN SubSeq(path, 1, Len(path) - 1) ELSE path

\* the working directory of the host process
ProcessCwd == Slash

\* path.resolve(p)
PathResolve(path) ==
    IF path # <<>> /\ path[1] = "/" THEN StripSlash(Normalize(path))
    ELSE StripSlash(Normalize(ProcessCwd \o Slash \o path))

\* path.dirname of a normalized absolute path
Dirname(path) ==
    LET segs == SplitPath(StripSlash(path))
    IN IF Len(segs) <= 2 THEN Slash
       ELSE JoinSegs(SubSeq(segs, 1, Len(segs) - 1))

\* ---- the storage ----
Abs(segs) == Slash \o JoinSegs(segs)
NameA == Str1("a")
NameB == Str1("b")
NameBC == <<"b", "c">>
NameX == Str1("x")
NameH == Str1("h")
HomeDir == Abs(<<NameH>>)

\* the directories of the host; the handlers create and remove none
Dirs == {Slash, Abs(<<NameA>>), Abs(<<NameA, NameB>>), Abs(<<NameA, NameBC>>), HomeDir}

\* ---- text as fs stores it ----
\* A JavaScript string is a sequence of UTF-16 code units: here "a" (an ASCII
\* letter), "hi"/"lo" (the two halves of a surrogate pair) and "fffd" (the
\* replacement character).  A file holds bytes, named by their hex value.
HighSurrogate == "hi"
LowSurrogate == "lo"
Replacement == "fffd"
ReplacementBytes == <<"ef", "bf", "bd">>
PairBytes == <<"f0", "9f", "98", "80">>

\* Buffer.from(content, 'utf-8') as fs.writeFileSync(..., 'utf-8') does it:
\* a surrogate pair is one 4-byte sequence, an unpaired surrogate becomes
\* the replacement character
RECURSIVE Utf8Encode(_)
Utf8Encode(units) ==
    IF units = <<>> THEN <<>>
    ELSE IF Len(units) >= 2 /\ units[1] = HighSurrogate /\ units[2] = LowSurrogate
    THEN PairBytes \o Utf8Encode(SubSeq(units, 3, Len(units)))
    ELSE IF units[1] \in {HighSurrogate, LowSurrogate, Replacement}
    THEN ReplacementBytes \o Utf8Encode(Tail(units))
    ELSE <<"61">> \o Utf8Encode(Tail(units))

\* a decoder that knows no 4-byte sequences: each such byte is replaced
RECURSIVE Utf8DecodeNoAstral(_)
Utf8DecodeNoAstral(bytes) ==
    IF bytes = <<>> THEN <<>>
    ELSE IF StartsWith(bytes, ReplacementBytes)
    THEN <<Replacement>> \o Utf8DecodeNoAstral(SubSeq(bytes, 4, Len(bytes)))
    ELSE IF bytes[1] = "61"
    THEN <<"a">> \o Utf8DecodeNoAstral(Tail(bytes))
    ELSE <<Replacement>> \o Utf8DecodeNoAstral(Tail(bytes))

\* buffer.toString('utf-8') as fs.readFileSync(..., 'utf-8') does it
RECURSIVE Utf8Decode(_)
Utf8Decode(bytes) ==
    IF bytes = <<>> THEN <<>>
    ELSE IF StartsWith(bytes, PairBytes)
    THEN <<HighSurrogate, LowSurrogate>> \o Utf8Decode(SubSeq(bytes, 5, Len(bytes)))
    ELSE IF StartsWith(bytes, ReplacementBytes)
    THEN <<Replacement>> \o Utf8Decode(SubSeq(bytes, 4, Len(bytes)))
    ELSE <<"a">> \o Utf8Decode(Tail(bytes))

\* A file of the storage: its bytes, and (for the round trip) the string the
\* last save-file was given for it.
StoredFile(content) == [bytes |-> Utf8Encode(content), written |-> content]

InitFiles ==
    [f \in {Abs(<<NameA, NameB, NameX>>), Abs(<<NameA, NameBC, NameX>>)} |->
        StoredFile(<<"a">>)]

IsDirectory(path) == StripSlash(path) \in Dirs
IsFile(path) == path \in DOMAIN files
ExistsSync(path) == IsDirectory(path) \/ IsFile(path)

\* fs.writeFileSync succeeds on a file name inside an existing directory
Writable(path) ==
    /\ ~EndsWithSlash(path)
    /\ ~IsDirectory(path)
    /\ Dirname(path) \in Dirs

Init ==
    /\ pty \in BOOLEAN
    /\ files = InitFiles
    /\ mainWindow = "window"
    /\ currentDirectory = <<>>
    /\ terminals = EmptyMap
    /\ procs = <<>>
    /\ lastOp = Op("start", "", "none", NoProc)

\* ---- node-pty handles ----
\* A handle as pty.spawn returns it, with the callbacks create-terminal wires.
\* status: "running", "exited" (the process is gone, its exit callback is
\* still queued) or "closed" (the exit callback has run).
\* produced/handled count the output chunks generated and delivered to the
\* data callback; out is what the data callback pushed as terminal-output
\* and closedEvents how many terminal-closed events the exit callback pushed.
\* fresh: the termId had no registry entry when the handle was stored.
NewHandle(id, fresh) ==
    [termId |-> id, fresh |-> fresh, status |-> "running", killed |-> FALSE,
     swept |-> FALSE, produced |-> 0, handled |-> 0, out |-> <<>>, closedEvents |-> 0]

ProcIds == DOMAIN procs

TotalProduced == LET RECURSIVE Sum(_)
                     Sum(n) == IF n = 0 THEN 0 ELSE procs[n].produced + Sum(n - 1)
                 IN Sum(Len(procs))

\* term.kill(), term.write(), term.resize() signal or use the pty of the
\* process: they can fail only once the process is gone.
MayThrow(p) == procs[p].status # "running"

\* term.resize rejects non-positive sizes whatever the process state.
BadSize(cols, rows) == cols <= 0 \/ rows <= 0

\* ---- create-terminal ----
TmuxBin == <<"/opt/homebrew/bin/tmux">>
UserShell == <<"$SHELL">>
DefaultCols == 80
DefaultRows == 24

NoOptions == [type |-> "", session |-> "", cols |-> 0, rows |-> 0]

CreateOptions ==
    { NoOptions,
      [NoOptions EXCEPT !.type = "tmux", !.session = "main"],
      [NoOptions EXCEPT !.type = "tmux"],
      [NoOptions EXCEPT !.cols = 100, !.rows = 40] }

\* a policy that looks at the type alone
SpawnShellByTypeOnly(options) ==
    IF options.type = "tmux" THEN TmuxBin ELSE UserShell

SpawnShell(options) ==
    IF options.type = "tmux" /\ options.session # "" THEN TmuxBin ELSE UserShell

SpawnArgs(options) ==
    IF options.type = "tmux" /\ options.session # ""
    THEN <<"attach", "-t", options.session>>
    ELSE <<"-l">>

SpawnCwd == IF currentDirectory # <<>> THEN currentDirectory ELSE HomeDir

OrDefault(v, d) == IF v # 0 THEN v ELSE d

\* create-terminal whose catch block also drops the entry of termId
CreateTerminalCleansUp(id, options) ==
    /\ WindowAlive
    /\ \/ /\ ~pty
          /\ lastOp' = Op("create", id, "Terminal not available", NoProc)
          /\ UNCHANGED <<terminals, procs>>
       \/ /\ pty
          /\ procs' = Append(procs, NewHandle(id, ~MapHas(terminals, id)))
          /\ terminals' = MapSet(terminals, id, Len(procs) + 1)
          /\ lastOp' = Op("create", id, "ok", Len(procs) + 1)
       \/ /\ pty
          /\ lastOp' = Op("create", id, "spawn failed", NoProc)
          /\ terminals' = MapDelete(terminals, id)
          /\ UNCHANGED procs
    /\ UNCHANGED <<pty, mainWindow, currentDirectory, files>>

CreateTerminal(id, options) ==
    /\ WindowAlive
    /\ \/ /\ ~pty
          /\ lastOp' = Op("create", id, "Terminal not available", NoProc)
          /\ UNCHANGED <<terminals, procs>>
       \/ /\ pty
          /\ LET term == Len(procs) + 1
                 spawn == [shell |-> SpawnShell(options), args |-> SpawnArgs(options),
                           cols |-> OrDefault(options.cols, DefaultCols),
                           rows |-> OrDefault(options.rows, DefaultRows),
                           cwd |-> SpawnCwd]
             IN /\ procs' = Append(procs, NewHandle(id, ~MapHas(terminals, id)))
                /\ terminals' = MapSet(terminals, id, term)
                /\ lastOp' = [Op("create", id, "ok", term) EXCEPT !.detail = spawn]
       \/ /\ pty
          /\ lastOp' = Op("create", id, "spawn failed", NoProc)
          /\ UNCHANGED <<terminals, procs>>
    /\ UNCHANGED <<pty, mainWindow, currentDirectory, files>>

\* ---- terminal-input ----
\* terminal-input without the `if (term)` guard: undefined.write faults
TerminalInputNoGuard(id, data) ==
    /\ WindowAlive
    /\ LET term == MapGet(terminals, id)
       IN \/ /\ term = NoProc
             /\ lastOp' = Op("input", id, "fault", NoProc)
             /\ UNCHANGED terminals
          \/ /\ term # NoProc
             /\ lastOp' = Op("input", id, "written", term)
             /\ UNCHANGED terminals
          \/ /\ term # NoProc
             /\ MayThrow(term)
             /\ lastOp' = Op("input", id, "caught", term)
             /\ terminals' = MapDelete(terminals, id)
    /\ UNCHANGED <<pty, mainWindow, currentDirectory, procs, files>>

TerminalInput(id, data) ==
    /\ WindowAlive
    /\ LET term == MapGet(terminals, id)
       IN \/ /\ term = NoProc
             /\ lastOp' = Op("input", id, "none", NoProc)
             /\ UNCHANGED terminals
          \/ /\ term # NoProc
             /\ lastOp' = Op("input", id, "written", term)
             /\ UNCHANGED terminals
          \/ /\ term # NoProc
             /\ MayThrow(term)
             /\ lastOp' = Op("input", id, "caught", term)
             /\ terminals' = MapDelete(terminals, id)
    /\ UNCHANGED <<pty, mainWindow, currentDirectory, procs, files>>

\* ---- terminal-resize ----
ResizeSizes == {0, 100}

\* a catch that forgets terminals.delete
TerminalResizeKeepsEntry(id, cols, rows) ==
    /\ WindowAlive
    /\ LET term == MapGet(terminals, id)
       IN \/ /\ term = NoProc
             /\ lastOp' = Op("resize", id, "none", NoProc)
          \/ /\ term # NoProc
             /\ ~BadSize(cols, rows)
             /\ lastOp' = Op("resize", id, "resized", term)
          \/ /\ term # NoProc
             /\ BadSize(cols, rows) \/ MayThrow(term)
             /\ lastOp' = Op("resize", id, "caught", term)
    /\ UNCHANGED <<pty, mainWindow, currentDirectory, terminals, procs, files>>

TerminalResize(id, cols, rows) ==
    /\ WindowAlive
    /\ LET term == MapGet(terminals, id)
       IN \/ /\ term = NoProc
             /\ lastOp' = Op("resize", id, "none", NoProc)
             /\ UNCHANGED <<terminals, procs>>
          \/ /\ term # NoProc
             /\ ~BadSize(cols, rows)
             /\ lastOp' = Op("resize", id, "resized", term)
             /\ UNCHANGED <<terminals, procs>>
          \/ /\ term # NoProc
             /\ BadSize(cols, rows) \/ MayThrow(term)
             /\ lastOp' = Op("resize", id, "caught", term)
             /\ terminals' = MapDelete(terminals, id)
             /\ UNCHANGED procs
    /\ UNCHANGED <<pty, mainWindow, currentDirectory, files>>

\* ---- close-terminal ----
\* a close that clears the registry instead of deleting one entry
CloseTerminalClearsAll(id) ==
    /\ WindowAlive
    /\ LET term == MapGet(terminals, id)
       IN \/ /\ term = NoProc
             /\ lastOp' = Op("close", id, "ok", NoProc)
             /\ UNCHANGED <<terminals, procs>>
          \/ /\ term # NoProc
             /\ procs' = [procs EXCEPT ![term].killed = TRUE]
             /\ terminals' = EmptyMap
             /\ lastOp' = Op("close", id, "ok", term)
          \/ /\ term # NoProc
             /\ MayThrow(term)
             /\ procs' = [procs EXCEPT ![term].killed = TRUE]
             /\ lastOp' = Op("close", id, "fault", term)
             /\ UNCHANGED terminals
    /\ UNCHANGED <<pty, mainWindow, currentDirectory, files>>

CloseTerminal(id) ==
    /\ WindowAlive
    /\ LET term == MapGet(terminals, id)
       IN \/ /\ term = NoProc
             /\ lastOp' = Op("close", id, "ok", NoProc)
             /\ UNCHANGED <<terminals, procs>>
          \/ /\ term # NoProc
             /\ procs' = [procs EXCEPT ![term].killed = TRUE]
             /\ terminals' = MapDelete(terminals, id)
             /\ lastOp' = Op("close", id, "ok", term)
          \/ /\ term # NoProc
             /\ MayThrow(term)
             /\ procs' = [procs EXCEPT ![term].killed = TRUE]
             /\ lastOp' = Op("close", id, "fault", term)
             /\ UNCHANGED terminals
    /\ UNCHANGED <<pty, mainWindow, currentDirectory, files>>

\* ---- the process and its callbacks ----
ProcOutput(p) ==
    /\ procs[p].status = "running"
    /\ procs' = [procs EXCEPT ![p].produced = @ + 1]
    /\ lastOp' = EnvOp
    /\ UNCHANGED <<pty, mainWindow, currentDirectory, terminals, files>>

ProcExit(p) ==
    /\ procs[p].status = "running"
    /\ procs' = [procs EXCEPT ![p].status = "exited"]
    /\ lastOp' = EnvOp
    /\ UNCHANGED <<pty, mainWindow, currentDirectory, terminals, files>>

\* a data callback that puts the chunk in front of what was pushed before
OnDataPrepends(p) ==
    /\ procs[p].handled < procs[p].produced
    /\ LET data == procs[p].handled + 1
       IN \/ /\ WindowAlive
             /\ procs' = [procs EXCEPT ![p].handled = data, ![p].out = <<data>> \o @]
             /\ lastOp' = Op("onData", procs[p].termId, "sent", p)
          \/ /\ ~WindowAlive
             /\ procs' = [procs EXCEPT ![p].handled = data]
             /\ lastOp' = Op("onData", procs[p].termId, "none", p)
    /\ UNCHANGED <<pty, mainWindow, currentDirectory, terminals, files>>

\* a data callback that sends without looking at the window
OnDataNoWindowCheck(p) ==
    /\ procs[p].handled < procs[p].produced
    /\ LET data == procs[p].handled + 1
       IN /\ procs' = [procs EXCEPT ![p].handled = data, ![p].out = Append(@, data)]
          /\ lastOp' = Op("onData", procs[p].termId,
                          IF WindowAlive THEN "sent" ELSE "fault", p)
    /\ UNCHANGED <<pty, mainWindow, currentDirectory, terminals, files>>

\* term.onData(data => ...): the next queued chunk, its data is its number
OnData(p) ==
    /\ procs[p].handled < procs[p].produced
    /\ LET data == procs[p].handled + 1
       IN \/ /\ WindowAlive
             /\ procs' = [procs EXCEPT ![p].handled = data, ![p].out = Append(@, data)]
             /\ lastOp' = Op("onData", procs[p].termId, "sent", p)
          \/ /\ ~WindowAlive
             /\ procs' = [procs EXCEPT ![p].handled = data]
             /\ lastOp' = Op("onData", procs[p].termId, "none", p)
    /\ UNCHANGED <<pty, mainWindow, currentDirectory, terminals, files>>

\* an exit callback that never pushes terminal-closed
OnExitNoSend(p) ==
    /\ procs[p].status = "exited"
    /\ procs[p].handled = procs[p].produced
    /\ terminals' = MapDelete(terminals, procs[p].termId)
    /\ procs' = [procs EXCEPT ![p].status = "closed"]
    /\ lastOp' = Op("onExit", procs[p].termId, "none", p)
    /\ UNCHANGED <<pty, mainWindow, currentDirectory, files>>

\* an exit callback that leaves the registry entry in place
OnExitKeepsEntry(p) ==
    /\ procs[p].status = "exited"
    /\ procs[p].handled = procs[p].produced
    /\ UNCHANGED terminals
    /\ \/ /\ WindowAlive
          /\ procs' = [procs EXCEPT ![p].status = "closed", ![p].closedEvents = @ + 1]
          /\ lastOp' = Op("onExit", procs[p].termId, "sent", p)
       \/ /\ ~WindowAlive
          /\ procs' = [procs EXCEPT ![p].status = "closed"]
          /\ lastOp' = Op("onExit", procs[p].termId, "none", p)
    /\ UNCHANGED <<pty, mainWindow, currentDirectory, files>>

\* term.onExit(() => ...): once per handle, after its last chunk
OnExit(p) ==
    /\ procs[p].status = "exited"
    /\ procs[p].handled = procs[p].produced
    /\ terminals' = MapDelete(terminals, procs[p].termId)
    /\ \/ /\ WindowAlive
          /\ procs' = [procs EXCEPT ![p].status = "closed", ![p].closedEvents = @ + 1]
          /\ lastOp' = Op("onExit", procs[p].termId, "sent", p)
       \/ /\ ~WindowAlive
          /\ procs' = [procs EXCEPT ![p].status = "closed"]
          /\ lastOp' = Op("onExit", procs[p].termId, "none", p)
    /\ UNCHANGED <<pty, mainWindow, currentDirectory, files>>

\* ---- the window ----
\* mainWindow.on('closed'): every handle of the registry is killed inside a
\* try/catch, then the registry is cleared.
Handles(m) == {m[i] : i \in DOMAIN m}

\* the sweep without try/catch: the first kill that throws ends the handler,
\* later handles are not killed and the registry is not cleared
FirstThrown(thrown) == CHOOSE p \in thrown : \A q \in thrown : p <= q

WindowClosedNoCatch ==
    /\ mainWindow = "window"
    /\ \E thrown \in SUBSET {p \in Handles(terminals) : MayThrow(p)} :
          /\ mainWindow' = "null"
          /\ procs' = [p \in DOMAIN procs |->
                          IF p \in Handles(terminals)
                             /\ (thrown = {} \/ p <= FirstThrown(thrown))
                          THEN [procs[p] EXCEPT !.killed = TRUE, !.swept = TRUE] ELSE procs[p]]
          /\ terminals' = IF thrown = {} THEN EmptyMap ELSE terminals
          /\ lastOp' = [Op("windowClosed", "", "none", NoProc) EXCEPT !.detail = thrown]
    /\ UNCHANGED <<pty, currentDirectory, files>>

\* thrown: the handles whose kill() throws during the sweep (detail records them)
WindowClosed ==
    /\ mainWindow = "window"
    /\ \E thrown \in SUBSET {p \in Handles(terminals) : MayThrow(p)} :
          /\ mainWindow' = "null"
          /\ procs' = [p \in DOMAIN procs |->
                          IF p \in Handles(terminals)
                          THEN [procs[p] EXCEPT !.killed = TRUE, !.swept = TRUE] ELSE procs[p]]
          /\ terminals' = EmptyMap
          /\ lastOp' = [Op("windowClosed", "", "none", NoProc) EXCEPT !.detail = thrown]
    /\ UNCHANGED <<pty, currentDirectory, files>>

\* app.on('activate'): createWindow() when no window is left
Activate ==
    /\ mainWindow = "null"
    /\ mainWindow' = "window"
    /\ lastOp' = Op("activate", "", "none", NoProc)
    /\ UNCHANGED <<pty, currentDirectory, terminals, procs, files>>

\* ---- the workspace root ----
Tilde == Str1("~")

DirInputs ==
    { Abs(<<NameA, NameB>>),                    \* a directory
      Abs(<<NameA, NameB>>) \o Slash,           \* the same with a trailing slash
      Tilde,                                    \* the home directory
      Abs(<<NameA, NameB, NameX>>),             \* a regular file
      Abs(<<NameA, NameX>>) }                   \* nothing

\* dirPath.replace(/^~/, os.homedir())
ExpandTilde(dirPath) ==
    IF dirPath # <<>> /\ dirPath[1] = "~" THEN HomeDir \o Tail(dirPath) ELSE dirPath

\* the check without its statSync(fullPath).isDirectory()
SetDirectoryExistsOnly(dirPath) ==
    /\ WindowAlive
    /\ LET fullPath == PathResolve(ExpandTilde(dirPath))
       IN IF ExistsSync(fullPath)
          THEN /\ currentDirectory' = fullPath
               /\ lastOp' = [Op("setDirectory", "", "ok", NoProc) EXCEPT !.detail = fullPath]
          ELSE /\ lastOp' = Op("setDirectory", "", "Directory not found", NoProc)
               /\ UNCHANGED currentDirectory
    /\ UNCHANGED <<pty, mainWindow, terminals, procs, files>>

SetDirectory(dirPath) ==
    /\ WindowAlive
    /\ LET fullPath == PathResolve(ExpandTilde(dirPath))
       IN IF ExistsSync(fullPath) /\ IsDirectory(fullPath)
          THEN /\ currentDirectory' = fullPath
               /\ lastOp' = [Op("setDirectory", "", "ok", NoProc) EXCEPT !.detail = fullPath]
          ELSE /\ lastOp' = Op("setDirectory", "", "Directory not found", NoProc)
               /\ UNCHANGED currentDirectory
    /\ UNCHANGED <<pty, mainWindow, terminals, procs, files>>

\* what dialog.showOpenDialog resolves to: canceled, or the directory picked
DialogResults ==
    { [canceled |-> TRUE, filePaths |-> <<>>] } \cup
    { [canceled |-> FALSE, filePaths |-> <<d>>] : d \in {Abs(<<NameA, NameB>>), HomeDir} }

OpenDirectoryDialog(result) ==
    /\ WindowAlive
    /\ IF ~result.canceled /\ Len(result.filePaths) > 0
       THEN /\ currentDirectory' = result.filePaths[1]
            /\ lastOp' = [Op("openDirectoryDialog", "", "ok", NoProc)
                              EXCEPT !.detail = result.filePaths[1]]
       ELSE /\ lastOp' = Op("openDirectoryDialog", "", "null", NoProc)
            /\ UNCHANGED currentDirectory
    /\ UNCHANGED <<pty, mainWindow, terminals, procs, files>>

\* File > Open Directory...: the application menu outlives the window, and
\* mainWindow.webContents faults once mainWindow is null
MenuOpenDirectory(result) ==
    /\ IF ~result.canceled /\ Len(result.filePaths) > 0
       THEN /\ currentDirectory' = result.filePaths[1]
            /\ lastOp' = [Op("menuOpenDirectory", "",
                              IF mainWindow = "null" THEN "fault" ELSE "sent", NoProc)
                              EXCEPT !.detail = result.filePaths[1]]
       ELSE /\ lastOp' = Op("menuOpenDirectory", "", "none", NoProc)
            /\ UNCHANGED currentDirectory
    /\ UNCHANGED <<pty, mainWindow, terminals, procs, files>>

Directory ==
    \/ \E dirPath \in DirInputs : SetDirectory(dirPath)
    \/ \E result \in DialogResults : OpenDirectoryDialog(result)
    \/ \E result \in DialogResults : MenuOpenDirectory(result)

\* ---- directory listings ----
ALLOWED_EXTENSIONS ==
    { <<".", "t", "e", "x">>,
      <<".", "b", "i", "b">>,
      <<".", "s", "t", "y">>,
      <<".", "c", "l", "s">>,
      <<".", "t", "x", "t">>,
      <<".", "m", "d">>,
      <<".", "p", "d", "f">>,
      <<".", "j", "p", "g">>,
      <<".", "j", "p", "e", "g">>,
      <<".", "p", "n", "g">>,
      <<".", "g", "i", "f">>,
      <<".", "s", "v", "g">> }
TEXT_EXTENSIONS ==
    { <<".", "t", "e", "x">>,
      <<".", "b", "i", "b">>,
      <<".", "s", "t", "y">>,
      <<".", "c", "l", "s">>,
      <<".", "t", "x", "t">>,
      <<".", "m", "d">> }
ImageExtensions ==
    { <<".", "j", "p", "g">>,
      <<".", "j", "p", "e", "g">>,
      <<".", "p", "n", "g">>,
      <<".", "g", "i", "f">>,
      <<".", "s", "v", "g">> }
PdfExtension == <<".", "p", "d", "f">>

UpperCase == <<"A", "B", "C", "D", "E", "F", "G", "H", "I", "J", "K", "L", "M",
               "N", "O", "P", "Q", "R", "S", "T", "U", "V", "W", "X", "Y", "Z">>
LowerCase == <<"a", "b", "c", "d", "e", "f", "g", "h", "i", "j", "k", "l", "m",
               "n", "o", "p", "q", "r", "s", "t", "u", "v", "w", "x", "y", "z">>

\* String.prototype.toLowerCase
LowerChar(c) ==
    IF \E i \in DOMAIN UpperCase : UpperCase[i] = c
    THEN LowerCase[CHOOSE i \in DOMAIN UpperCase : UpperCase[i] = c]
    ELSE c
ToLowerCase(str) == [i \in 1..Len(str) |-> LowerChar(str[i])]

\* the collation order of the characters of a lower-cased name: punctuation
\* sorts before the letters, the letters alphabetically
Collation == Dot \o LowerCase
CollationKey(c) == CHOOSE i \in DOMAIN Collation : Collation[i] = c

\* a.localeCompare(b) on lower-cased names: negative, zero or positive
RECURSIVE LocaleCompare(_, _)
LocaleCompare(a, b) ==
    IF a = <<>> /\ b = <<>> THEN 0
    ELSE IF a = <<>> THEN -1
    ELSE IF b = <<>> THEN 1
    ELSE IF CollationKey(a[1]) < CollationKey(b[1]) THEN -1
    ELSE IF CollationKey(a[1]) > CollationKey(b[1]) THEN 1
    ELSE LocaleCompare(Tail(a), Tail(b))

\* path.basename of a normalized absolute path
Basename(path) ==
    LET segs == SplitPath(StripSlash(path))
    IN IF segs = <<>> THEN <<>> ELSE segs[Len(segs)]

\* path.extname(name): from the last dot on, empty when the name has no dot
\* or only a leading one
Extname(name) ==
    LET dots == {i \in DOMAIN name : name[i] = "."}
    IN IF dots = {} THEN <<>>
       ELSE LET last == CHOOSE i \in dots : \A j \in dots : j <= i
            IN IF last = 1 THEN <<>> ELSE SubSeq(name, last, Len(name))

\* the children of a directory of the storage
Children(dir) ==
    {c \in (Dirs \ {Slash}) \cup DOMAIN files : Dirname(c) = StripSlash(dir)}

Dirent(child) == [name |-> Basename(child), isDirectory |-> child \in Dirs]

\* the orders in which fs.readdirSync may return the children
RECURSIVE Orderings(_)
Orderings(set) ==
    IF set = {} THEN {<<>>}
    ELSE UNION {{<<c>> \o rest : rest \in Orderings(set \ {c})} : c \in set}

NotHidden(entry) == ~StartsWith(entry.name, Dot)

\* the extension test without its toLowerCase
AllowedEntryCaseSensitive(entry) ==
    \/ entry.isDirectory
    \/ Extname(entry.name) \in ALLOWED_EXTENSIONS

AllowedEntry(entry) ==
    \/ entry.isDirectory
    \/ ToLowerCase(Extname(entry.name)) \in ALLOWED_EXTENSIONS

FileRecord(entry, relativePath) ==
    LET ext == ToLowerCase(Extname(entry.name))
    IN [name |-> entry.name,
        path |-> IF relativePath # <<>> THEN PathJoin(relativePath, entry.name)
                 ELSE entry.name,
        isDirectory |-> entry.isDirectory,
        isText |-> ~entry.isDirectory /\ ext \in TEXT_EXTENSIONS,
        isPdf |-> ext = PdfExtension,
        isImage |-> ext \in ImageExtensions]

SortCompare(a, b) ==
    IF a.isDirectory # b.isDirectory
    THEN IF a.isDirectory THEN -1 ELSE 1
    ELSE LocaleCompare(ToLowerCase(a.name), ToLowerCase(b.name))

\* Array.prototype.sort is stable: a record goes behind the records it does
\* not precede
InsertSorted(sorted, rec) ==
    LET before == {i \in DOMAIN sorted : SortCompare(rec, sorted[i]) < 0}
        at == IF before = {} THEN Len(sorted) + 1
              ELSE CHOOSE i \in before : \A j \in before : i <= j
    IN SubSeq(sorted, 1, at - 1) \o <<rec>> \o SubSeq(sorted, at, Len(sorted))

RECURSIVE SortRecords(_)
SortRecords(records) ==
    IF records = <<>> THEN <<>>
    ELSE InsertSorted(SortRecords(SubSeq(records, 1, Len(records) - 1)),
                      records[Len(records)])

\* entries.filter(...).filter(...).map(...).sort(...)
Listing(entries, relativePath) ==
    LET shown == SelectSeq(SelectSeq(entries, NotHidden), AllowedEntry)
    IN SortRecords([i \in 1..Len(shown) |-> FileRecord(shown[i], relativePath)])

\* ---- the file handlers ----
FileOp(op, result, fullPath) ==
    [Op(op, "", result, NoProc) EXCEPT !.detail = fullPath]

\* fullPath.startsWith(currentDirectory)
SecurityCheck(fullPath) == StartsWith(fullPath, currentDirectory)

ListFiles(relativePath) ==
    /\ WindowAlive
    /\ IF currentDirectory = <<>>
       THEN lastOp' = FileOp("listFiles", "No directory opened", <<>>)
       ELSE LET fullPath == IF relativePath # <<>>
                            THEN PathJoin(currentDirectory, relativePath)
                            ELSE currentDirectory
            IN IF ~SecurityCheck(fullPath)
               THEN lastOp' = FileOp("listFiles", "Invalid path", <<>>)
               ELSE IF IsDirectory(fullPath)
               THEN \E order \in Orderings(Children(fullPath)) :
                       lastOp' = [FileOp("listFiles", "ok", fullPath) EXCEPT
                                     !.content =
                                        Listing([i \in 1..Len(order) |-> Dirent(order[i])],
                                                relativePath)]
               ELSE lastOp' = FileOp("listFiles", "io error", fullPath)
    /\ UNCHANGED <<pty, mainWindow, currentDirectory, terminals, procs, files>>

ReadFile(relativePath) ==
    /\ WindowAlive
    /\ IF currentDirectory = <<>> \/ relativePath = <<>>
       THEN lastOp' = FileOp("readFile", "Invalid request", <<>>)
       ELSE LET fullPath == PathJoin(currentDirectory, relativePath)
            IN IF ~SecurityCheck(fullPath)
               THEN lastOp' = FileOp("readFile", "Invalid path", <<>>)
               ELSE IF IsFile(fullPath)
               THEN lastOp' = [FileOp("readFile", "text", fullPath)
                                  EXCEPT !.content = Utf8Decode(files[fullPath].bytes)]
               ELSE lastOp' = FileOp("readFile", "io error", fullPath)
    /\ UNCHANGED <<pty, mainWindow, currentDirectory, terminals, procs, files>>

Contents ==
    { <<"a", "a">>,
      <<HighSurrogate, LowSurrogate>>,
      <<"a", Replacement>>,
      <<>>,
      <<"a", HighSurrogate>> }       \* an unpaired surrogate

SaveFile(relativePath, content) ==
    /\ WindowAlive
    /\ IF currentDirectory = <<>> \/ relativePath = <<>>
       THEN /\ lastOp' = FileOp("saveFile", "Invalid request", <<>>)
            /\ UNCHANGED files
       ELSE LET fullPath == PathJoin(currentDirectory, relativePath)
            IN IF ~SecurityCheck(fullPath)
               THEN /\ lastOp' = FileOp("saveFile", "Invalid path", <<>>)
                    /\ UNCHANGED files
               ELSE IF Writable(fullPath)
               THEN /\ files' = MapSet(files, fullPath, StoredFile(content))
                    /\ lastOp' = FileOp("saveFile", "ok", fullPath)
               ELSE /\ lastOp' = FileOp("saveFile", "io error", fullPath)
                    /\ UNCHANGED files
    /\ UNCHANGED <<pty, mainWindow, currentDirectory, terminals, procs>>

GetFilePath(relativePath) ==
    /\ WindowAlive
    /\ IF currentDirectory = <<>> \/ relativePath = <<>>
       THEN lastOp' = FileOp("getFilePath", "null", <<>>)
       ELSE LET fullPath == PathJoin(currentDirectory, relativePath)
            IN IF ~SecurityCheck(fullPath)
               THEN lastOp' = FileOp("getFilePath", "null", <<>>)
               ELSE IF ~ExistsSync(fullPath)
               THEN lastOp' = FileOp("getFilePath", "null", fullPath)
               ELSE lastOp' = FileOp("getFilePath", "path", fullPath)
    /\ UNCHANGED <<pty, mainWindow, currentDirectory, terminals, procs, files>>

GetFileMtime(relativePath) ==
    /\ WindowAlive
    /\ IF currentDirectory = <<>> \/ relativePath = <<>>
       THEN lastOp' = FileOp("getFileMtime", "null", <<>>)
       ELSE LET fullPath == PathJoin(currentDirectory, relativePath)
            IN IF ~SecurityCheck(fullPath)
               THEN lastOp' = FileOp("getFileMtime", "null", <<>>)
               ELSE IF ExistsSync(fullPath)
               THEN lastOp' = FileOp("getFileMtime", "mtime", fullPath)
               ELSE lastOp' = FileOp("getFileMtime", "null", fullPath)
    /\ UNCHANGED <<pty, mainWindow, currentDirectory, terminals, procs, files>>

\* the relative paths the surface sends
RelativePaths ==
    { <<>>, Dot, NameX \o Slash, Slash \o NameX,
      JoinSegs(<<NameX>>),                      \* x
      JoinSegs(<<NameBC>>),                     \* bc
      JoinSegs(<<NameX, Up>>),                  \* x/..
      JoinSegs(<<NameX, Up, NameBC>>),          \* x/../bc
      JoinSegs(<<Up>>),                         \* ..
      JoinSegs(<<Up, NameX>>),                  \* ../x
      JoinSegs(<<Up, NameB>>),                  \* ../b
      JoinSegs(<<Up, NameB, NameX>>),           \* ../b/x
      JoinSegs(<<Up, NameBC>>),                 \* ../bc
      JoinSegs(<<Up, NameBC, NameX>>),          \* ../bc/x
      JoinSegs(<<Up, NameH, NameX>>),           \* ../h/x
      JoinSegs(<<Up, Up, NameH, NameX>>),       \* ../../h/x
      JoinSegs(<<NameX, Up, Up, NameBC, NameX>>) }   \* x/../../bc/x

ChangedFiles ==
    {f \in DOMAIN files : f \notin DOMAIN InitFiles \/ files[f] # InitFiles[f]}

FileHandlers ==
    \/ \E relativePath \in RelativePaths : ListFiles(relativePath)
    \/ \E relativePath \in RelativePaths : ReadFile(relativePath)
    \/ \E relativePath \in RelativePaths, content \in Contents :
          Cardinality(ChangedFiles) < MaxWrites /\ SaveFile(relativePath, content)
    \/ \E relativePath \in RelativePaths : GetFilePath(relativePath)
    \/ \E relativePath \in RelativePaths : GetFileMtime(relativePath)

InputData == {"x"}

\* the handlers and callbacks that act on handles already spawned
Lifecycle ==
    \/ \E id \in TermIds, data \in InputData : TerminalInput(id, data)
    \/ \E id \in TermIds, cols \in ResizeSizes, rows \in ResizeSizes :
          TerminalResize(id, cols, rows)
    \/ \E id \in TermIds : CloseTerminal(id)
    \/ \E p \in ProcIds : ProcExit(p)
    \/ \E p \in ProcIds : OnExit(p)
    \/ WindowClosed
    \/ Activate

Create(max) ==
    /\ ~pty \/ Len(procs) < max
    /\ \E id \in TermIds, options \in CreateOptions : CreateTerminal(id, options)

\* the session registry, the processes staying silent
Next ==
    \/ Create(MaxProcs)
    \/ Lifecycle

Spec == Init /\ [][Next]_vars

\* the session registry with processes that write to their terminal
NextStream ==
    \/ Create(MaxStreams)
    \/ Lifecycle
    \/ \E p \in ProcIds : TotalProduced < MaxOut /\ ProcOutput(p)
    \/ \E p \in ProcIds : OnData(p)

SpecStream == Init /\ [][NextStream]_vars

\* the file gateway and the workspace root
NextFiles ==
    \/ Directory
    \/ FileHandlers

InitFileGateway == Init /\ pty

SpecFiles == InitFileGateway /\ [][NextFiles]_vars

\* ---- tmux discovery ----
Newline == Str1("\n")
Colon == Str1(":")
Whitespace == {" ", "\n"}
DigitChars == <<"0", "1", "2", "3", "4", "5", "6", "7", "8", "9">>

\* String.prototype.trim
RECURSIVE Trim(_)
Trim(str) ==
    IF str = <<>> THEN <<>>
    ELSE IF str[1] \in Whitespace THEN Trim(Tail(str))
    ELSE IF str[Len(str)] \in Whitespace THEN Trim(SubSeq(str, 1, Len(str) - 1))
    ELSE str

\* String.prototype.split(sep) for a separator of one character
RECURSIVE SplitOn(_, _, _, _)
SplitOn(str, sep, cur, acc) ==
    IF str = <<>> THEN Append(acc, cur)
    ELSE IF str[1] = sep THEN SplitOn(Tail(str), sep, <<>>, Append(acc, cur))
    ELSE SplitOn(Tail(str), sep, Append(cur, str[1]), acc)
Split(str, sep) == SplitOn(str, sep, <<>>, <<>>)

IsDigit(c) == \E i \in DOMAIN DigitChars : DigitChars[i] = c
DigitValue(c) == (CHOOSE i \in DOMAIN DigitChars : DigitChars[i] = c) - 1

\* parseInt(str) for unsigned decimal text: <<n>> for the number its leading
\* digits spell, <<>> for NaN
RECURSIVE ParseDigits(_, _)
ParseDigits(str, n) ==
    IF str = <<>> \/ ~IsDigit(str[1]) THEN n
    ELSE ParseDigits(Tail(str), 10 * n + DigitValue(str[1]))
ParseInt(str) ==
    IF str = <<>> \/ ~IsDigit(str[1]) THEN <<>> ELSE <<ParseDigits(str, 0)>>

\* a destructured element that is missing reads as undefined, which neither
\* parses nor equals '1'; it is kept as the empty text
Part(parts, i) == IF i <= Len(parts) THEN parts[i] ELSE <<>>

SessionOf(line) ==
    LET parts == Split(line, ":")
    IN [name |-> Part(parts, 1),
        windows |-> ParseInt(Part(parts, 2)),
        attached |-> Part(parts, 3) = Str1("1")]

NonEmpty(line) == line # <<>>

\* the parse without its filter(line => line)
ParseSessionsKeepsEmpty(stdout) ==
    LET lines == Split(Trim(stdout), "\n")
    IN [i \in 1..Len(lines) |-> SessionOf(lines[i])]

ParseSessions(stdout) ==
    LET lines == SelectSeq(Split(Trim(stdout), "\n"), NonEmpty)
    IN [i \in 1..Len(lines) |-> SessionOf(lines[i])]

\* the callback of exec: error is set when the binary is missing, exits
\* non-zero or finds no server
ListTmuxSessions(error, stdout) ==
    /\ WindowAlive
    /\ lastOp' = [Op("listTmuxSessions", "", "sessions", NoProc) EXCEPT
                     !.detail = [error |-> error, stdout |-> stdout],
                     !.content = IF error THEN <<>> ELSE ParseSessions(stdout)]
    /\ UNCHANGED <<pty, mainWindow, currentDirectory, terminals, procs, files>>

\* what tmux list-sessions -F prints: a line per session, each ended by a
\* newline
MaxSessions == 2

SessionLines ==
    { [name |-> Str1("p"), windows |-> Str1("3"), attached |-> Str1("1")],
      [name |-> <<"q", " ", "r">>, windows |-> <<"1", "2">>, attached |-> Str1("0")],
      [name |-> Str1("s"), windows |-> Str1("1"), attached |-> Str1("2")] }

RenderLine(session) ==
    session.name \o Colon \o session.windows \o Colon \o session.attached \o Newline

RECURSIVE Render(_)
Render(sessions) ==
    IF sessions = <<>> THEN <<>>
    ELSE RenderLine(Head(sessions)) \o Render(Tail(sessions))

SessionLists == UNION {[1..n -> SessionLines] : n \in 0..MaxSessions}

\* the outputs of a tmux that lists up to MaxSessions sessions
TmuxOutputs == {Render(sessions) : sessions \in SessionLists}

\* tmux discovery beside a registry with live sessions, each ID spawned once
NextDiscovery ==
    \/ \E id \in TermIds :
          (~pty \/ \A p \in ProcIds : procs[p].termId # id) /\ CreateTerminal(id, NoOptions)
    \/ \E id \in TermIds : CloseTerminal(id)
    \/ \E p \in ProcIds : ProcExit(p)
    \/ \E error \in BOOLEAN, stdout \in TmuxOutputs : ListTmuxSessions(error, stdout)

SpecDiscovery == Init /\ [][NextDiscovery]_vars

\* spawning under a workspace root that changes
SpawnOptions ==
    CreateOptions \cup
    { [NoOptions EXCEPT !.session = "main"],
      [NoOptions EXCEPT !.type = "shell", !.session = "main"],
      [NoOptions EXCEPT !.type = "tmux", !.session = "main", !.cols = 100],
      [NoOptions EXCEPT !.rows = 40] }

NextSpawn ==
    \/ Directory
    \/ \E id \in TermIds, options \in SpawnOptions :
          (~pty \/ Len(procs) < MaxStreams) /\ CreateTerminal(id, options)
    \/ \E id \in TermIds : CloseTerminal(id)

SpecSpawn == Init /\ [][NextSpawn]_vars

\* sessions side by side with the file gateway and a root that changes, each
\* ID spawned once
IsolationPaths == {<<>>, NameX}

NextIsolation ==
    \/ \E id \in TermIds :
          (~pty \/ \A p \in ProcIds : procs[p].termId # id) /\ CreateTerminal(id, NoOptions)
    \/ \E id \in TermIds, data \in InputData : TerminalInput(id, data)
    \/ \E id \in TermIds, cols \in ResizeSizes, rows \in ResizeSizes :
          TerminalResize(id, cols, rows)
    \/ \E id \in TermIds : CloseTerminal(id)
    \/ \E p \in ProcIds : ProcExit(p)
    \/ \E p \in ProcIds : OnExit(p)
    \/ Directory
    \/ \E relativePath \in IsolationPaths : ListFiles(relativePath)
    \/ \E relativePath \in IsolationPaths : ReadFile(relativePath)
    \/ \E relativePath \in IsolationPaths :
          Cardinality(ChangedFiles) < MaxWrites /\ SaveFile(relativePath, <<"a", "a">>)
    \/ \E relativePath \in IsolationPaths : GetFilePath(relativePath)
    \/ \E relativePath \in IsolationPaths : GetFileMtime(relativePath)

SpecIsolation == Init /\ [][NextIsolation]_vars

\* listings of a directory holding a bounded choice of files
MaxListed == 3

ListedDir == Abs(<<NameA>>)
CandidateNames ==
    { <<"B", ".", "t", "e", "x">>, <<"a", ".", "T", "E", "X">>, <<"A", ".", "t", "e", "x">>,
      <<"c", ".", "e", "x", "e">>, <<".", "h", ".", "t", "e", "x">>, <<"t", "e", "x">> }

CandidateStorages ==
    { [f \in DOMAIN InitFiles \cup {ListedDir \o Slash \o n : n \in names} |->
          StoredFile(<<"a">>)] :
      names \in {c \in SUBSET CandidateNames : Cardinality(c) <= MaxListed} }

InitList ==
    /\ pty = TRUE
    /\ files \in CandidateStorages
    /\ mainWindow = "window"
    /\ currentDirectory = <<>>
    /\ terminals = EmptyMap
    /\ procs = <<>>
    /\ lastOp = Op("start", "", "none", NoProc)

ListRoots == {ListedDir, Abs(<<NameA, NameB>>), Abs(<<NameA, NameX>>)}
ListPaths == {<<>>, NameBC, Up}

NextList ==
    \/ \E dirPath \in ListRoots : SetDirectory(dirPath)
    \/ \E relativePath \in ListPaths : ListFiles(relativePath)

SpecList == InitList /\ [][NextList]_vars

\* ======================= claims =======================

Events == {"input", "resize", "close"}

\* C1 (as claimed): a create for a termId that still has a registry entry
\* returns an error, spawns nothing and leaves the registry as it was.
C1_DuplicateCreateRejected ==
    [][\A id \in TermIds :
          (lastOp'.op = "create" /\ lastOp'.id = id /\ MapHas(terminals, id))
          => /\ lastOp'.result # "ok"
             /\ procs' = procs
             /\ terminals' = terminals]_vars

\* C2 (as claimed): once the exit callback of a session created under a
\* fresh termId has run, exactly one terminal-closed has been pushed for it.
C2_ClosedEventAlways ==
    \A p \in ProcIds :
        (procs[p].fresh /\ procs[p].status = "closed") => procs[p].closedEvents = 1

\* C2 (amended): a session's terminal-closed count only ever changes when its
\* exit callback runs while the window is alive, and then by exactly one; a
\* session never has more than one, and none before its exit callback ran.
C2_ClosedEventWhileWindow ==
    /\ [](\A p \in ProcIds :
            /\ procs[p].closedEvents <= 1
            /\ procs[p].status # "closed" => procs[p].closedEvents = 0)
    /\ [][\A p \in ProcIds :
            procs'[p].closedEvents =
                IF procs[p].status = "exited" /\ procs'[p].status = "closed" /\ WindowAlive
                THEN procs[p].closedEvents + 1
                ELSE procs[p].closedEvents]_vars

\* C2 witness: one session closed by the caller and one that exited by
\* itself, each with its terminal-closed event pushed.
C2_Witness ==
    \E p, q \in ProcIds :
        /\ procs[p].status = "closed" /\ procs[p].killed /\ procs[p].closedEvents = 1
        /\ procs[q].status = "closed" /\ ~procs[q].killed /\ procs[q].closedEvents = 1

\* C3 (as claimed): the exit callback of a killed process whose termId is by
\* now registered to another handle leaves the registry alone and pushes no
\* terminal-closed for that termId.
C3_LateExitLeavesNewSession ==
    [][\A p \in ProcIds :
          (/\ lastOp'.op = "onExit" /\ lastOp'.target = p
           /\ procs[p].killed
           /\ MapGet(terminals, procs[p].termId) \notin {NoProc, p})
          => /\ terminals' = terminals
             /\ lastOp'.result # "sent"]_vars

\* C4: input, resize and close for a termId without registry entry change
\* nothing: no handle is touched, no event pushed, close returns ok.
C4_UnknownIdNoOp ==
    [][\A id \in TermIds :
          (lastOp'.op \in Events /\ lastOp'.id = id /\ ~MapHas(terminals, id))
          => /\ terminals' = terminals
             /\ procs' = procs
             /\ mainWindow' = mainWindow
             /\ currentDirectory' = currentDirectory
             /\ lastOp'.target = NoProc
             /\ lastOp'.result = IF lastOp'.op = "close" THEN "ok" ELSE "none"]_vars

\* C4 witness: a request for the termId of a session that has already exited
\* was handled as a no-op.
C4_Witness ==
    /\ lastOp.op \in Events
    /\ lastOp.target = NoProc
    /\ \E p \in ProcIds : procs[p].termId = lastOp.id /\ procs[p].status = "closed"

\* C5: a handle whose exit callback has run is in no registry entry, and
\* input/resize never call write or resize on such a handle.
C5_NoDanglingHandle ==
    /\ \A p \in ProcIds : procs[p].status = "closed" => p \notin Handles(terminals)
    /\ (lastOp.op \in {"input", "resize"} /\ lastOp.target # NoProc)
          => procs[lastOp.target].status # "closed"

\* C5 witness: input/resize for the termId of an exited session found no handle.
C5_Witness ==
    /\ lastOp.op \in {"input", "resize"}
    /\ lastOp.target = NoProc
    /\ \E p \in ProcIds : procs[p].termId = lastOp.id /\ procs[p].status = "closed"
    /\ Handles(terminals) # {}

\* C6: the window-closed handler requests kill on every handle that is in the
\* registry when it runs, whichever kills throw, and leaves the registry empty.
C6_TeardownKillsAll ==
    [][lastOp'.op = "windowClosed"
          => /\ \A p \in Handles(terminals) : procs'[p].killed
             /\ terminals' = EmptyMap]_vars

\* C6 witness: a sweep over two handles, one of whose kill threw.
C6_Witness ==
    /\ lastOp.op = "windowClosed"
    /\ lastOp.detail # {}
    /\ \E p, q \in ProcIds :
          /\ p # q /\ procs[p].killed /\ procs[q].killed
          /\ p \in lastOp.detail /\ q \notin lastOp.detail

\* C7 (as claimed): every spawned process that has neither exited nor been
\* sent kill is held by a registry entry.
C7_NoOrphanProcess ==
    \A p \in ProcIds :
        (procs[p].status = "running" /\ ~procs[p].killed) => p \in Handles(terminals)

\* C8: create-terminal either stores the new handle under its termId and
\* returns ok, or returns an error and leaves registry and handles as they were.
C8_CreateAllOrNothing ==
    [][\A id \in TermIds :
          (lastOp'.op = "create" /\ lastOp'.id = id)
          => \/ /\ lastOp'.result = "ok"
                /\ Len(procs') = Len(procs) + 1
                /\ MapGet(terminals', id) = Len(procs')
                /\ lastOp'.target = Len(procs')
                /\ procs'[Len(procs')].status = "running"
                /\ \A i \in TermIds \ {id} : MapGet(terminals', i) = MapGet(terminals, i)
             \/ /\ lastOp'.result # "ok"
                /\ lastOp'.target = NoProc
                /\ terminals' = terminals
                /\ procs' = procs]_vars

\* C8 witness: a failed spawn for a termId that has a live session.
C8_Witness ==
    /\ lastOp.op = "create"
    /\ lastOp.result = "spawn failed"
    /\ MapHas(terminals, lastOp.id)

FileOps == {"listFiles", "readFile", "saveFile", "getFilePath", "getFileMtime"}

\* containment that respects the path separator: root itself, or below root/
Inside(root, fullPath) ==
    \/ fullPath = root
    \/ StartsWith(fullPath, IF EndsWithSlash(root) THEN root ELSE root \o Slash)

\* C9 (as claimed): a file handler hands fs only paths inside the workspace
\* root; a path that resolves outside it (a sibling whose name begins with
\* the root's name included) is turned down before storage is touched.
C9_StorageOnlyInsideRoot ==
    (lastOp.op \in FileOps /\ lastOp.detail # <<>>)
        => Inside(currentDirectory, lastOp.detail)

\* C11 (as claimed): a successful read-file returns the very string the last
\* save-file stored under that path, whatever the string.
C11_RoundTrip ==
    (lastOp.op = "readFile" /\ lastOp.result = "text")
        => lastOp.content = files[lastOp.detail].written

WellFormed(units) ==
    \A i \in 1 .. Len(units) :
        /\ units[i] = HighSurrogate => (i < Len(units) /\ units[i + 1] = LowSurrogate)
        /\ units[i] = LowSurrogate => (i > 1 /\ units[i - 1] = HighSurrogate)

\* C11 (amended): a successful read-file returns the string the last save-file
\* stored under that path when that string has no unpaired surrogate; the
\* handlers in between (list-files included) do not change what is stored.
C11_RoundTripWellFormed ==
    /\ []((lastOp.op = "readFile" /\ lastOp.result = "text"
             /\ WellFormed(files[lastOp.detail].written))
            => lastOp.content = files[lastOp.detail].written)
    /\ [][lastOp'.op # "saveFile" => files' = files]_vars

\* C11 witness: a surrogate pair saved by save-file has been read back.
C11_Witness ==
    /\ lastOp.op = "readFile"
    /\ lastOp.result = "text"
    /\ lastOp.content = <<HighSurrogate, LowSurrogate>>
    /\ lastOp.detail \in ChangedFiles

EndsWith(str, suffix) ==
    /\ Len(suffix) <= Len(str)
    /\ SubSeq(str, Len(str) - Len(suffix) + 1, Len(str)) = suffix

\* a comes no later than b in dictionary order
NameLeq(a, b) ==
    \/ Len(a) <= Len(b) /\ SubSeq(b, 1, Len(a)) = a
    \/ \E k \in 1..Len(a) :
          /\ k <= Len(b)
          /\ SubSeq(a, 1, k - 1) = SubSeq(b, 1, k - 1)
          /\ CollationKey(a[k]) < CollationKey(b[k])

\* the children of dir a listing is to show
Shown(dir) ==
    {c \in Children(dir) :
        /\ Basename(c)[1] # "."
        /\ \/ c \in Dirs
           \/ \E ext \in ALLOWED_EXTENSIONS : EndsWith(ToLowerCase(Basename(c)), ext)}

\* C12: a successful listFiles returns exactly the children of the directory
\* that are not hidden and are a directory or carry an allowed extension
\* (compared ignoring case), each once, the directories before the files and
\* each group in dictionary order of the lower-cased names.
C12_ListingFilteredAndSorted ==
    (lastOp.op = "listFiles" /\ lastOp.result = "ok") =>
        LET listing == lastOp.content
            dir == StripSlash(lastOp.detail)
        IN /\ Len(listing) = Cardinality(Shown(dir))
           /\ {dir \o (IF dir = Slash THEN <<>> ELSE Slash) \o listing[i].name :
                   i \in DOMAIN listing} = Shown(dir)
           /\ \A i \in DOMAIN listing :
                 listing[i].isDirectory
                    <=> (dir \o (IF dir = Slash THEN <<>> ELSE Slash) \o listing[i].name) \in Dirs
           /\ \A i, j \in DOMAIN listing :
                 i < j =>
                    /\ listing[j].isDirectory => listing[i].isDirectory
                    /\ listing[i].isDirectory = listing[j].isDirectory =>
                          NameLeq(ToLowerCase(listing[i].name), ToLowerCase(listing[j].name))

\* two directories, an upper-case extension, a capital sorting behind a small
\* letter and a hidden file left out
C12_Witness ==
    /\ lastOp.op = "listFiles" /\ lastOp.result = "ok"
    /\ lastOp.detail = ListedDir
    /\ (ListedDir \o Slash \o <<".", "h", ".", "t", "e", "x">>) \in DOMAIN files
    /\ Len(lastOp.content) = 4
    /\ [i \in 1..4 |-> lastOp.content[i].name] = <<NameB, NameBC, <<"a", ".", "T", "E", "X">>, <<"B", ".", "t", "e", "x">>>>

\* the session lists tmux may print, each with its output
Outputs == {<<sessions, Render(sessions)>> : sessions \in SessionLists}

\* answer holds a record per session of printed, in order, with its name,
\* its window count, and attached exactly for the flag "1"
Answers(printed, answer) ==
    /\ Len(answer) = Len(printed)
    /\ \A i \in DOMAIN printed :
          /\ answer[i].name = printed[i].name
          /\ answer[i].windows = <<ParseDigits(printed[i].windows, 0)>>
          /\ answer[i].attached <=> printed[i].attached = Str1("1")

\* C13: listTmuxSessions answers with one record per line of the output, in
\* the order of the lines, carrying the line's name and window count and
\* attached exactly when the flag is "1"; when the invocation failed the
\* answer is the empty sequence; the answer is never a fault and the call
\* leaves registry and processes as they were.
C13_DiscoveryParsesOrEmpty ==
    [][lastOp'.op = "listTmuxSessions" =>
          /\ lastOp'.result = "sessions"
          /\ terminals' = terminals /\ procs' = procs
          /\ IF lastOp'.detail.error
             THEN lastOp'.content = <<>>
             ELSE \E output \in Outputs :
                     /\ output[2] = lastOp'.detail.stdout
                     /\ Answers(output[1], lastOp'.content)]_vars

\* two sessions listed while a terminal is registered, the first attached
\* and the second not
C13_Witness ==
    /\ lastOp.op = "listTmuxSessions" /\ ~lastOp.detail.error
    /\ terminals # EmptyMap
    /\ Len(lastOp.content) = 2
    /\ lastOp.content[1].attached /\ ~lastOp.content[2].attached
    /\ lastOp.content[2].windows = <<12>>

\* C14: a closeTerminal step for an ID with a registry entry asks the handle
\* to kill its process, leaves the registry without the ID and answers with
\* a result object, also when the kill call fails.
C14_CloseAlwaysRemoves ==
    [][\A id \in TermIds :
          (CloseTerminal(id) /\ MapHas(terminals, id)) =>
              /\ procs'[terminals[id]].killed
              /\ ~MapHas(terminals', id)
              /\ lastOp'.result = "ok"]_vars

\* C15: an input or resize step never ends in a fault and leaves every
\* process as it was; when the write or resize on the handle failed, the step
\* drops exactly the registry entry of its ID; and an input, resize or close
\* step for an ID without an entry changes neither registry nor processes.
C15_DeadHandleDropped ==
    [][/\ lastOp'.op \in {"input", "resize"} =>
             /\ lastOp'.result \in {"none", "written", "resized", "caught"}
             /\ procs' = procs
       /\ (lastOp'.op \in {"input", "resize"} /\ lastOp'.result = "caught") =>
             /\ MapHas(terminals, lastOp'.id)
             /\ terminals' = MapDelete(terminals, lastOp'.id)
       /\ (lastOp'.op \in Events /\ ~MapHas(terminals, lastOp'.id)) =>
             /\ terminals' = terminals /\ procs' = procs
             /\ lastOp'.result \in {"none", "ok"}]_vars

\* a resize that failed on a handle whose process had exited
C15_Witness ==
    /\ lastOp.op = "resize" /\ lastOp.result = "caught"
    /\ procs[lastOp.target].status = "exited"
    /\ ~MapHas(terminals, lastOp.id)

RootSetters == {"setDirectory", "openDirectoryDialog", "menuOpenDirectory"}

C17_SpawnPolicy ==
    [][\A id \in TermIds, options \in SpawnOptions :
          (CreateTerminal(id, options) /\ lastOp'.result = "ok") =>
              LET spawn == lastOp'.detail
              IN /\ (options.type = "tmux" /\ options.session # "") =>
                       /\ spawn.shell = TmuxBin
                       /\ spawn.args = <<"attach", "-t", options.session>>
                 /\ (options.type # "tmux" \/ options.session = "") =>
                       /\ spawn.shell = UserShell
                       /\ spawn.args = <<"-l">>
                 /\ currentDirectory # <<>> => spawn.cwd = currentDirectory
                 /\ currentDirectory = <<>> => spawn.cwd = HomeDir
                 /\ spawn.cols = (IF options.cols = 0 THEN 80 ELSE options.cols)
                 /\ spawn.rows = (IF options.rows = 0 THEN 24 ELSE options.rows)]_vars

\* a tmux attach spawned with one dimension given, under a root set before
C17_Witness ==
    /\ lastOp.op = "create" /\ lastOp.result = "ok"
    /\ lastOp.detail.shell = TmuxBin
    /\ lastOp.detail.cwd = Abs(<<NameA, NameB>>)
    /\ lastOp.detail.cols = 100 /\ lastOp.detail.rows = 24

Pushed(p) == <<procs[p].out, procs[p].closedEvents>>

\* C18 (as claimed): once the teardown has swept a terminal, its data and exit
\* callbacks push no event and leave the registry empty.
C18_SweptCallbacksSilent ==
    [][\A p \in ProcIds :
          (procs[p].swept /\ lastOp'.op \in {"onData", "onExit"} /\ lastOp'.target = p) =>
              /\ Pushed(p)' = Pushed(p)
              /\ terminals' = EmptyMap]_vars

\* C18: an output or closed event is pushed only in a step that starts with
\* the window alive; while there is no window the registry is empty, and a
\* data or exit callback that runs then ends without fault, pushes nothing
\* and leaves the registry empty.
C18_EventsOnlyWhileWindow ==
    /\ [][\A p \in ProcIds : Pushed(p)' # Pushed(p) => WindowAlive]_vars
    /\ [](~WindowAlive => terminals = EmptyMap)
    /\ [][lastOp'.op \in {"onData", "onExit"} =>
             /\ lastOp'.result \in {"sent", "none"}
             /\ ~WindowAlive =>
                   /\ lastOp'.result = "none"
                   /\ \A p \in ProcIds : Pushed(p)' = Pushed(p)
                   /\ terminals' = EmptyMap]_vars

\* the data callback of a swept terminal has run with no window, and so has
\* its exit callback
C18_Witness ==
    /\ ~WindowAlive
    /\ lastOp.op = "onExit" /\ lastOp.result = "none"
    /\ procs[lastOp.target].swept
    /\ procs[lastOp.target].handled > Len(procs[lastOp.target].out)

\* the registry entry of id and the handle it points at
Session(id) ==
    IF MapHas(terminals, id) THEN <<terminals[id], procs[terminals[id]]>> ELSE <<NoProc>>

\* C19: an input, resize, close or exit-callback step for one ID leaves the
\* entry and the handle of every other ID as they were, and a file operation
\* or a change of the workspace root leaves registry and handles as they were.
C19_SessionIsolation ==
    [][/\ lastOp'.op \in Events \cup {"onExit"} =>
             \A other \in TermIds \ {lastOp'.id} : Session(other)' = Session(other)
       /\ lastOp'.op \in FileOps \cup RootSetters =>
             terminals' = terminals /\ procs' = procs]_vars

\* a registered session closed while another one is registered and a root
\* is set
C19_Witness ==
    /\ lastOp.op = "close" /\ lastOp.target # NoProc
    /\ \E other \in TermIds \ {lastOp.id} :
          MapHas(terminals, other) /\ procs[terminals[other]].status = "running"
    /\ currentDirectory # <<>>

\* C10 (as claimed): what has been pushed as terminal-output for a session is
\* exactly the chunks delivered so far, in generation order.
C10_OutputComplete ==
    \A p \in ProcIds : procs[p].out = [i \in 1 .. procs[p].handled |-> i]

\* C10 (amended): a session's pushed output only ever changes when its data
\* callback runs while the window is alive, and then by appending the next
\* chunk generated; no other step (resize and input included) changes it.
C10_OutputInOrderWhileWindow ==
    [][\A p \in ProcIds :
          /\ procs'[p].handled \in {procs[p].handled, procs[p].handled + 1}
          /\ procs'[p].out =
                IF procs'[p].handled = procs[p].handled + 1 /\ WindowAlive
                THEN Append(procs[p].out, procs[p].handled + 1)
                ELSE procs[p].out]_vars

\* C10 witness: a resize handled between two chunks of a session, the first
\* already pushed and the second generated but not yet delivered.
C10_Witness ==
    /\ lastOp.op = "resize"
    /\ lastOp.result = "resized"
    /\ lastOp.target \in ProcIds
    /\ procs[lastOp.target].out = <<1>>
    /\ procs[lastOp.target].produced = 2

====
